---- MODULE Spec2Model ----
(***************************************************************************)
(* typstfmt: the recursive bottom-up formatting engine of lib.rs.          *)
(*                                                                         *)
(* A string is a sequence of one-character strings.  A CST node is a       *)
(* record [kind, text, children]; text is non-empty only for leaves.       *)
(* The formatting context threaded through the recursion is a record       *)
(* [config, warnings, spans]: the configuration, the number of             *)
(* warning-level diagnostics emitted so far and the set of instrumented    *)
(* functions entered so far (the #[instrument] spans).                     *)
(***************************************************************************)
EXTENDS Integers, Sequences, FiniteSets, TLC

VARIABLES s, config, node, pc, out, out2, ctx

vars == <<s, config, node, pc, out, out2, ctx>>

\* ---------------------------------------------------------------- bounds
MaxSpaces == 2      \* longest run of spaces between two tokens of a source
MaxTerms == 3       \* most operands of a binary chain in a source
MaxChildren == 3    \* most children of a node handed to visit directly
MaxWidth == 5       \* largest max_line_length tried

MaxLineLengths == {MaxWidth - 1, MaxWidth}

\* ------------------------------------------------------- strings, nodes
Leaf(k, t) == [kind |-> k, text |-> t, children |-> <<>>]

Inner(k, cs) == [kind |-> k, text |-> <<>>, children |-> cs]

Whitespace == {" ", "\n"}

\* kinds x for which BinOp::from_kind(x).is_some()
BinOpKinds == {"Plus", "Eq"}

Min(a, b) == IF a <= b THEN a ELSE b

Max(a, b) == IF a >= b THEN a ELSE b

\* ------------------------------------------------------------- context
\* Ctx::from_config
from_config(c) == [config |-> c, warnings |-> 0, spans |-> {}]

\* #[instrument]: entering a function opens its span
enter(c, name) == [c EXCEPT !.spans = @ \cup {name}]

\* warn!(...)
warn(c) == [c EXCEPT !.warnings = @ + 1]

\* normalisation done by Ctx::push_in: a run of spaces becomes one space,
\* a run of three or more newlines becomes two newlines
collapse(t) ==
    LET acc[i \in 0..Len(t)] ==
            IF i = 0 THEN [o |-> <<>>, sp |-> FALSE, nl |-> 0]
            ELSE LET p == acc[i - 1]
                     c == t[i]
                 IN  IF c = " "
                     THEN [o |-> IF p.sp THEN p.o ELSE Append(p.o, c),
                           sp |-> TRUE, nl |-> 0]
                     ELSE IF c = "\n"
                     THEN [o |-> IF p.nl >= 2 THEN p.o ELSE Append(p.o, c),
                           sp |-> FALSE, nl |-> p.nl + 1]
                     ELSE [o |-> Append(p.o, c), sp |-> FALSE, nl |-> 0]
    IN  acc[Len(t)].o

\* Ctx::push_in(s, result): normalized append
push_in(t, res) == res \o collapse(t)

\* Ctx::push_raw_in(s, result): append unmodified
push_raw_in(t, res) == res \o t

\* Ctx::push_raw_indent(s, result) with indent depth 0
push_raw_indent(t, res) == res \o t

\* utils::max_line_length: the longest segment between newline boundaries
max_line_length(t) ==
    LET acc[i \in 0..Len(t)] ==
            IF i = 0 THEN [cur |-> 0, best |-> 0]
            ELSE LET p == acc[i - 1]
                 IN  IF t[i] = "\n"
                     THEN [cur |-> 0, best |-> p.best]
                     ELSE [cur |-> p.cur + 1, best |-> Max(p.best, p.cur + 1)]
    IN  acc[Len(t)].best

\* ---------------------------------------------------------- formatters
\* format_default emitting the children last to first
format_default_reversed(parent, children, c) ==
    LET n == Len(children)
        acc[i \in 0..n] ==
            IF i = 0 THEN push_in(parent.text, <<>>)
            ELSE push_raw_in(children[n + 1 - i], acc[i - 1])
    IN  [res |-> acc[n], ctx |-> enter(c, "format_default")]

\* format_default: the node's own text normalized, then every child raw
format_default(parent, children, c) ==
    LET n == Len(children)
        acc[i \in 0..n] ==
            IF i = 0 THEN push_in(parent.text, <<>>)
            ELSE push_raw_in(children[i], acc[i - 1])
    IN  [res |-> acc[n], ctx |-> enter(c, "format_default")]

\* format_bin_left_assoc_tight keeping the Space children
format_bin_left_assoc_tight_keepsSpace(parent, children, c) ==
    LET n == Min(Len(children), Len(parent.children))
        acc[i \in 0..n] ==
            IF i = 0 THEN <<>>
            ELSE LET k == parent.children[i].kind
                     r == acc[i - 1]
                 IN  IF k \in BinOpKinds
                     THEN push_in(<<" ">>, push_raw_in(children[i], push_in(<<" ">>, r)))
                     ELSE push_raw_in(children[i], r)
    IN  [res |-> acc[n], ctx |-> enter(c, "format_bin_left_assoc_tight")]

format_bin_left_assoc_tight(parent, children, c) ==
    LET n == Min(Len(children), Len(parent.children))
        acc[i \in 0..n] ==
            IF i = 0 THEN <<>>
            ELSE LET k == parent.children[i].kind
                     r == acc[i - 1]
                 IN  IF k \in BinOpKinds
                     THEN push_in(<<" ">>, push_raw_in(children[i], push_in(<<" ">>, r)))
                     ELSE IF k = "Space" THEN r
                     ELSE push_raw_in(children[i], r)
    IN  [res |-> acc[n], ctx |-> enter(c, "format_bin_left_assoc_tight")]

format_bin_left_assoc_breaking(parent, children, c) ==
    LET n == Min(Len(children), Len(parent.children))
        acc[i \in 0..n] ==
            IF i = 0 THEN <<>>
            ELSE LET k == parent.children[i].kind
                     r == acc[i - 1]
                 IN  IF k \in BinOpKinds
                     THEN push_raw_in(<<" ">>, push_raw_indent(children[i], push_in(<<"\n">>, r)))
                     ELSE IF k = "Space" THEN r
                     ELSE push_raw_in(children[i], r)
    IN  [res |-> acc[n], ctx |-> enter(c, "format_bin_left_assoc_breaking")]

\* format_bin_left_assoc with the commented-out return enabled
format_bin_left_assoc_breaksOnOverflow(parent, children, c) ==
    LET t == format_bin_left_assoc_tight(parent, children, enter(c, "format_bin_left_assoc"))
    IN  IF max_line_length(t.res) >= c.config.max_line_length
        THEN format_bin_left_assoc_breaking(parent, children, warn(t.ctx))
        ELSE t

format_bin_left_assoc(parent, children, c) ==
    LET t == format_bin_left_assoc_tight(parent, children, enter(c, "format_bin_left_assoc"))
    IN  IF max_line_length(t.res) >= c.config.max_line_length
        THEN [res |-> t.res, ctx |-> warn(t.ctx)]
        ELSE t

\* format_named_args padding the colon on both sides
format_named_args_padsColon(parent, children, c) ==
    LET n == Min(Len(children), Len(parent.children))
        acc[i \in 0..n] ==
            IF i = 0 THEN <<>>
            ELSE LET k == parent.children[i].kind
                     r == acc[i - 1]
                 IN  IF k = "Colon" THEN r \o <<" ", ":", " ">>
                     ELSE IF k = "Space" THEN r
                     ELSE push_raw_in(children[i], r)
    IN  [res |-> acc[n], ctx |-> enter(c, "format_named_args")]

format_named_args(parent, children, c) ==
    LET n == Min(Len(children), Len(parent.children))
        acc[i \in 0..n] ==
            IF i = 0 THEN <<>>
            ELSE LET k == parent.children[i].kind
                     r == acc[i - 1]
                 IN  IF k = "Colon" THEN r \o <<":", " ">>
                     ELSE IF k = "Space" THEN r
                     ELSE push_raw_in(children[i], r)
    IN  [res |-> acc[n], ctx |-> enter(c, "format_named_args")]

\* format_let_binding discarding the Space children as the others do
format_let_binding_dropsSpace(parent, children, c) ==
    LET n == Min(Len(children), Len(parent.children))
        acc[i \in 0..n] ==
            IF i = 0 THEN <<>>
            ELSE LET k == parent.children[i].kind
                     r == acc[i - 1]
                 IN  IF k = "Eq"
                     THEN push_in(<<" ">>, push_in(children[i], push_in(<<" ">>, r)))
                     ELSE IF k = "Space" THEN r
                     ELSE push_raw_in(children[i], r)
    IN  [res |-> acc[n], ctx |-> enter(c, "format_let_binding")]

format_let_binding(parent, children, c) ==
    LET n == Min(Len(children), Len(parent.children))
        acc[i \in 0..n] ==
            IF i = 0 THEN <<>>
            ELSE LET k == parent.children[i].kind
                     r == acc[i - 1]
                 IN  IF k = "Eq"
                     THEN push_in(<<" ">>, push_in(children[i], push_in(<<" ">>, r)))
                     ELSE IF k = "Space" THEN push_in(children[i], r)
                     ELSE push_raw_in(children[i], r)
    IN  [res |-> acc[n], ctx |-> enter(c, "format_let_binding")]

\* --------------------------------------------------------------- visit
RECURSIVE visit(_, _)
visit(nd, c) ==
    LET n == Len(nd.children)
        acc[i \in 0..n] ==
            IF i = 0 THEN [res |-> <<>>, ctx |-> enter(c, "V")]
            ELSE LET r == visit(nd.children[i], acc[i - 1].ctx)
                 IN  [res |-> Append(acc[i - 1].res, r.res), ctx |-> r.ctx]
        res == acc[n].res
        c1 == acc[n].ctx
    IN  CASE nd.kind = "Binary" -> format_bin_left_assoc(nd, res, c1)
          [] nd.kind \in {"Named", "Keyed"} -> format_named_args(nd, res, c1)
          [] nd.kind = "LetBinding" -> format_let_binding(nd, res, c1)
          [] OTHER -> format_default(nd, res, c1)

\* format(s, config): parse, build the context, visit the root
\* (parse is defined below with the parser's model)
format_tree(root, cfg) == visit(root, from_config(cfg))

\* --------------------------------------------------------------- parser
\* typst::syntax::parse, restricted to sources `#let x = e` where e is a
\* left-associative chain of binary operators.  The tree is lossless:
\* every character of the source is in exactly one leaf, spaces included.
Spaces(k) == [i \in 1..k |-> " "]

KindOfChar(c) ==
    CASE c = "#" -> "Hash"
      [] c = "+" -> "Plus"
      [] c = "=" -> "Eq"
      [] c = ":" -> "Colon"
      [] c = "1" -> "Int"
      [] OTHER -> "Ident"

\* length of the run of whitespace at the head of t
RECURSIVE SpaceRun(_)
SpaceRun(t) ==
    IF t = <<>> \/ Head(t) \notin Whitespace THEN 0 ELSE 1 + SpaceRun(Tail(t))

RECURSIVE Lex(_)
Lex(t) ==
    IF t = <<>> THEN <<>>
    ELSE IF Head(t) \in Whitespace
    THEN LET k == SpaceRun(t)
         IN  <<Leaf("Space", SubSeq(t, 1, k))>> \o Lex(SubSeq(t, k + 1, Len(t)))
    ELSE IF Len(t) >= 3 /\ SubSeq(t, 1, 3) = <<"l", "e", "t">>
    THEN <<Leaf("Let", SubSeq(t, 1, 3))>> \o Lex(SubSeq(t, 4, Len(t)))
    ELSE <<Leaf(KindOfChar(Head(t)), <<Head(t)>>)>> \o Lex(Tail(t))

\* index of the first token of kind k in toks (0 when there is none)
IndexOfKind(toks, k) ==
    LET hits == {i \in 1..Len(toks) : toks[i].kind = k}
    IN  IF hits = {} THEN 0 ELSE CHOOSE i \in hits : \A j \in hits : i <= j

\* lhs op rhs op rhs ...: each operator wraps everything parsed so far
RECURSIVE BuildBinary(_, _)
BuildBinary(lhs, rest) ==
    IF rest = <<>> THEN lhs
    ELSE LET i == IndexOfKind(rest, "Plus")
             j == IF rest[i + 1].kind = "Space" THEN i + 2 ELSE i + 1
         IN  BuildBinary(Inner("Binary", <<lhs>> \o SubSeq(rest, 1, j)),
                         SubSeq(rest, j + 1, Len(rest)))

ParseExpr(toks) == BuildBinary(Head(toks), Tail(toks))

parse(t) ==
    LET toks == Lex(t)
        e == IndexOfKind(toks, "Eq")
        h == IF toks[e + 1].kind = "Space" THEN e + 1 ELSE e
    IN  Inner("Markup",
              <<toks[1],
                Inner("LetBinding",
                      SubSeq(toks, 2, h) \o <<ParseExpr(SubSeq(toks, h + 1, Len(toks)))>>)>>)

format(t, cfg) == format_tree(parse(t), cfg)

\* the source text a tree was parsed from
RECURSIVE TextOf(_)
TextOf(nd) ==
    LET n == Len(nd.children)
        acc[i \in 0..n] ==
            IF i = 0 THEN nd.text ELSE acc[i - 1] \o TextOf(nd.children[i])
    IN  acc[n]

\* -------------------------------------------------------------- inputs
Operands == <<"a", "b", "c", "d", "e", "f">>

\* a chain of n operands, every operator written with the same spacing
ChainSource(n, before, after) ==
    LET acc[i \in 1..n] ==
            IF i = 1 THEN <<Operands[1]>>
            ELSE acc[i - 1] \o Spaces(before) \o <<"+">> \o Spaces(after)
                            \o <<Operands[((i - 1) % 6) + 1]>>
    IN  acc[n]

ChainSources ==
    {ChainSource(1, 0, 0)} \cup
    {ChainSource(n, b, a) : n \in 2..MaxTerms, b \in 0..MaxSpaces, a \in 0..MaxSpaces}

LetSource(b, a, e) ==
    <<"#", "l", "e", "t", " ", "x">> \o Spaces(b) \o <<"=">> \o Spaces(a) \o e

Sources ==
    {LetSource(b, a, e) : b \in 0..MaxSpaces, a \in 0..MaxSpaces, e \in ChainSources}

Configs == [max_line_length : MaxLineLengths]

NoNode == Leaf("Markup", <<>>)

\* nodes handed to visit directly
Ident(c) == Leaf("Ident", <<c>>)

TinyBinary == Inner("Binary", <<Ident("a"), Leaf("Plus", <<"+">>), Ident("b")>>)

SpaceChildren ==
    {<<>>, <<Leaf("Space", <<"\n">>)>>} \cup
    {<<Leaf("Space", Spaces(k))>> : k \in 1..MaxSpaces}

ChildPool ==
    {Ident("a"), Leaf("Plus", <<"+">>), Leaf("Colon", <<":">>), Leaf("Eq", <<"=">>),
     Leaf("Space", <<" ">>), Leaf("Space", <<" ", " ">>), TinyBinary}

SeqsUpTo(S, n) == UNION {[1..k -> S] : k \in 0..n}

NodeKinds == {"Binary", "Named", "Keyed", "LetBinding", "Markup"}

\* lhs sp op sp rhs, the shape of a binary expression or a named entry
InfixChildren ==
    {<<l>> \o b \o <<o>> \o a \o <<r>> :
        l \in {Ident("a"), TinyBinary}, b \in SpaceChildren,
        o \in {Leaf("Plus", <<"+">>), Leaf("Colon", <<":">>), Leaf("Eq", <<"=">>)},
        a \in SpaceChildren, r \in {Ident("b")}}

\* let sp x sp = sp rhs, the shape of a let binding
LetChildren ==
    {<<Leaf("Let", <<"l", "e", "t">>)>> \o l \o <<Ident("x")>> \o b
        \o <<Leaf("Eq", <<"=">>)>> \o a \o <<r>> :
        l \in SpaceChildren \ {<<>>}, b \in SpaceChildren, a \in SpaceChildren,
        r \in {Ident("a")}}

Nodes ==
    {Inner(k, cs) : k \in NodeKinds,
                    cs \in InfixChildren \cup LetChildren \cup SeqsUpTo(ChildPool, MaxChildren)}

\* ----------------------------------------------------- format, twice
Init ==
    /\ s \in Sources
    /\ config \in Configs
    /\ node = NoNode
    /\ pc = "start"
    /\ out = <<>>
    /\ out2 = <<>>
    /\ ctx = from_config(config)

\* format(s, config)
Format ==
    /\ pc = "start"
    /\ LET r == format(s, config)
       IN  /\ out' = r.res
           /\ ctx' = r.ctx
    /\ node' = parse(s)
    /\ pc' = "formatted"
    /\ UNCHANGED <<s, config, out2>>

\* format(format(s, config), config)
Reformat ==
    /\ pc = "formatted"
    /\ LET r == format(out, config)
       IN  /\ out2' = r.res
           /\ ctx' = r.ctx
    /\ node' = parse(out)
    /\ pc' = "reformatted"
    /\ UNCHANGED <<s, config, out>>

Next == Format \/ Reformat

Spec == Init /\ [][Next]_vars

\* ------------------------------------------- visit on a node directly
InitVisit ==
    /\ s = <<>>
    /\ config \in Configs
    /\ node \in Nodes
    /\ pc = "node"
    /\ out = <<>>
    /\ out2 = <<>>
    /\ ctx = from_config(config)

\* visit(node, ctx)
Visit ==
    /\ pc = "node"
    /\ LET r == visit(node, ctx)
       IN  /\ out' = r.res
           /\ ctx' = r.ctx
    /\ pc' = "visited"
    /\ UNCHANGED <<s, config, node, out2>>

NextVisit == Visit

SpecVisit == InitVisit /\ [][NextVisit]_vars

\* ------------------------------------------------------------ properties
Last(t) == t[Len(t)]

Flatten(ss) ==
    LET acc[i \in 0..Len(ss)] == IF i = 0 THEN <<>> ELSE acc[i - 1] \o ss[i]
    IN  acc[Len(ss)]

StripWhitespace(t) ==
    LET acc[i \in 0..Len(t)] ==
            IF i = 0 THEN <<>>
            ELSE IF t[i] \in Whitespace THEN acc[i - 1] ELSE Append(acc[i - 1], t[i])
    IN  acc[Len(t)]

\* the already-formatted string of the i-th child of nd
ChildFmt(nd, i) == visit(nd.children[i], from_config(config)).res

KindsOf(nd) == {nd.children[i].kind : i \in 1..Len(nd.children)}

HasSpaceRun(nd, k) ==
    \E i \in 1..Len(nd.children) :
        nd.children[i].kind = "Space" /\ Len(nd.children[i].text) >= k

\* nd without its Space children
RECURSIVE DropSpace(_)
DropSpace(cs) ==
    IF cs = <<>> THEN <<>>
    ELSE IF Head(cs).kind = "Space" THEN DropSpace(Tail(cs))
    ELSE <<Head(cs)>> \o DropSpace(Tail(cs))

Visited(kinds) == pc = "visited" /\ node.kind \in kinds

\* C2: a Binary node renders as its children in order, Space children
\* dropped, each operator token with one space before and one after, every
\* other child unmodified; the Space trivia do not change the rendering.
C2_BinaryTight ==
    Visited({"Binary"}) =>
        /\ out = Flatten([i \in 1..Len(node.children) |->
                    IF node.children[i].kind = "Space" THEN <<>>
                    ELSE IF node.children[i].kind \in BinOpKinds
                    THEN <<" ">> \o ChildFmt(node, i) \o <<" ">>
                    ELSE ChildFmt(node, i)])
        /\ out = visit(Inner("Binary", DropSpace(node.children)), from_config(config)).res

C2_Witness ==
    /\ Visited({"Binary"})
    /\ HasSpaceRun(node, 2)
    /\ Len(node.children) = 5
    /\ out = <<"a", " ", "+", " ", "b">>

\* C3: a Named or Keyed node renders as its children in order, Space
\* children dropped, each Colon as ": ", every other child unmodified,
\* whatever max_line_length is.
C3_NamedArgs ==
    Visited({"Named", "Keyed"}) =>
        /\ out = Flatten([i \in 1..Len(node.children) |->
                    IF node.children[i].kind = "Space" THEN <<>>
                    ELSE IF node.children[i].kind = "Colon" THEN <<":", " ">>
                    ELSE ChildFmt(node, i)])
        /\ \A m \in 0..(MaxWidth + 10) :
              visit(node, from_config([max_line_length |-> m])).res = out

C3_Witness ==
    /\ Visited({"Named", "Keyed"})
    /\ HasSpaceRun(node, 1)
    /\ Len(node.children) = 4
    /\ out = <<"a", ":", " ", "b">>

\* C5: format_bin_left_assoc returns the tight rendering for every
\* max_line_length, and format_bin_left_assoc_breaking is never entered.
C5_AlwaysTight ==
    Visited({"Binary"}) =>
        /\ out = format_bin_left_assoc_tight(
                    node, [i \in 1..Len(node.children) |-> ChildFmt(node, i)],
                    from_config(config)).res
        /\ "format_bin_left_assoc_breaking" \notin ctx.spans

C5_Witness ==
    /\ Visited({"Binary"})
    /\ max_line_length(out) > config.max_line_length
    /\ ctx.warnings >= 1
    /\ "format_bin_left_assoc" \in ctx.spans
    /\ "\n" \notin {out[i] : i \in 1..Len(out)}

LetPiece(nd, i) ==
    IF nd.children[i].kind = "Eq"
    THEN <<" ">> \o ChildFmt(nd, i) \o <<" ">>
    ELSE ChildFmt(nd, i)

PlainSpaceAt(nd, i) ==
    /\ nd.children[i].kind = "Space"
    /\ i > 1 => nd.children[i - 1].kind # "Eq"
    /\ i < Len(nd.children) => nd.children[i + 1].kind # "Eq"

C9_SpaceKept ==
    Visited({"LetBinding"}) =>
        \A i \in 1..Len(node.children) :
            PlainSpaceAt(node, i) =>
                LET off == Len(Flatten([j \in 1..(i - 1) |-> LetPiece(node, j)]))
                    f == ChildFmt(node, i)
                IN  /\ Len(out) >= off + Len(f)
                    /\ SubSeq(out, off + 1, off + Len(f)) = f

C9_Witness ==
    /\ Visited({"LetBinding"})
    /\ "Eq" \in KindsOf(node)
    /\ \E i \in 1..Len(node.children) :
          /\ PlainSpaceAt(node, i)
          /\ Len(node.children[i].text) >= 2
          /\ i > 1
          /\ node.children[i - 1].kind = "Let"
    /\ SubSeq(out, 1, 4) = <<"l", "e", "t", " ">>

\* C1: formatting the output of format again returns it unchanged.
C1_Idempotent == pc = "reformatted" => out2 = out

\* C4: in the rendering of a let binding the `=` has exactly one space
\* before it and exactly one after it, whatever spaces the source had.
OneSpaceAround(t, i) ==
    /\ i > 2 /\ t[i - 1] = " " /\ t[i - 2] # " "
    /\ i + 2 <= Len(t) /\ t[i + 1] = " " /\ t[i + 2] # " "

C4_LetSpacing ==
    pc = "formatted" =>
        \A i \in 1..Len(out) : out[i] = "=" => OneSpaceAround(out, i)

\* C6: a source whose binary expression overflows max_line_length in its
\* tight rendering gets exactly one warning during one format call.
BoundExpr(root) ==
    LET binding == root.children[2]
    IN  binding.children[Len(binding.children)]

C6_OneWarning ==
    (/\ pc = "formatted"
     /\ BoundExpr(node).kind = "Binary"
     /\ max_line_length(visit(BoundExpr(node), from_config(config)).res)
            > config.max_line_length)
        => ctx.warnings = 1

\* C8: a Binary, Named, Keyed or LetBinding node whose non-Space children
\* render without whitespace at either end renders without whitespace at
\* either end.
Bare(t) == t = <<>> \/ (Head(t) \notin Whitespace /\ Last(t) \notin Whitespace)

RECURSIVE SubNodes(_)
SubNodes(nd) ==
    {nd} \cup UNION {SubNodes(nd.children[i]) : i \in 1..Len(nd.children)}

\* C10: when no Binary node of the source has a tight rendering with a
\* line longer than max_line_length (equal to it is not longer), format
\* produces no warning.
C10_WarnOnlyWhenExceeded ==
    (/\ pc = "formatted"
     /\ \A nd \in SubNodes(node) :
           nd.kind = "Binary" =>
               max_line_length(visit(nd, from_config(config)).res)
                   <= config.max_line_length)
        => ctx.warnings = 0

====
